---- MODULE Spec2Model ----
(***************************************************************************)
(* Webhook-driven order / subscription reconciliation of the revenue       *)
(* engine API (src/api/app.py).                                            *)
(*                                                                         *)
(* One action per HTTP request.  A request action covers the whole         *)
(* request: the before_first_request hook, the route handler with every    *)
(* store write it performs, and the teardown_appcontext hook.  The         *)
(* relational store outlives the API process; Restart starts a fresh       *)
(* process over the same store.                                            *)
(*                                                                         *)
(* Table AutomationLog is append-only and no route of the API reads it, so *)
(* the rows written by earlier requests cannot influence a handler.  The   *)
(* model keeps the rows appended by the request just served.               *)
(***************************************************************************)
EXTENDS Integers, Sequences, FiniteSets, TLC

VARIABLES
    orders,                 \* table Order, in insertion order; row i has id i
    subscriptions,          \* table Subscription, in insertion order
    logs,                   \* AutomationLog rows appended by the request just served
    connected,              \* db.is_connected() of the process-global Prisma handle
    started,                \* the before_first_request hook has run in this process
    ENVIRONMENT,            \* os.getenv('ENVIRONMENT') of the process
    STRIPE_WEBHOOK_SECRET,  \* TRUE iff os.getenv('STRIPE_WEBHOOK_SECRET') is set
    products,               \* table Product; no route writes it
    leads,                  \* table Lead, keyed by email
    migrations,             \* table migrations: filename -> status
    assets,                 \* number of rows of table ContentAsset
    kpi,                    \* the row of table KpiDaily for today
    last                    \* the last request served and the response it got

vars == <<orders, subscriptions, logs, connected, started,
          ENVIRONMENT, STRIPE_WEBHOOK_SECRET, products, leads,
          migrations, assets, kpi, last>>

(***************************************************************************)
(* Bounds of the model                                                     *)
(***************************************************************************)
MaxOrders == 2
MaxSubscriptions == 1

TxnIds == {"T1", "T2"}      \* Stripe payment_intent ids
PayPalTxnIds == {"T1"}      \* PayPal capture ids; T1 is also a Stripe id
SubIds == {"S1"}            \* gateway subscription ids
Gateways == {"stripe", "paypal"}
Environments == {"unset", "development", "staging", "production"}
ContentTypes == {"application/json", "text/plain"}

(***************************************************************************)
(* SKUs are strings.  chars gives the characters of a SKU, so that         *)
(* str.startswith is computed on the text rather than assumed.             *)
(***************************************************************************)
UNKNOWN == "UNKNOWN"
COPYKIT_MONTHLY == "COPYKIT-MONTHLY"
COPYKIT_LITE == "COPYKIT-LITE"
DAILYBRIEF_MONTHLY == "DAILYBRIEF-MONTHLY"
UNKNOWN_XYZ == "UNKNOWN-XYZ"

chars(s) ==
    CASE s = "COPYKIT" -> <<"C","O","P","Y","K","I","T">>
      [] s = "DAILYBRIEF" -> <<"D","A","I","L","Y","B","R","I","E","F">>
      [] s = "UNKNOWN" -> <<"U","N","K","N","O","W","N">>
      [] s = "COPYKIT-MONTHLY" -> <<"C","O","P","Y","K","I","T","-","M","O","N","T","H","L","Y">>
      [] s = "COPYKIT-LITE" -> <<"C","O","P","Y","K","I","T","-","L","I","T","E">>
      [] s = "DAILYBRIEF-MONTHLY" ->
            <<"D","A","I","L","Y","B","R","I","E","F","-","M","O","N","T","H","L","Y">>
      [] s = "UNKNOWN-XYZ" -> <<"U","N","K","N","O","W","N","-","X","Y","Z">>

NoSku == "<absent>"         \* the event carries no sku (no metadata.sku / custom_id)

\* str.startswith
startswith(s, prefix) ==
    /\ Len(chars(s)) >= Len(chars(prefix))
    /\ SubSeq(chars(s), 1, Len(chars(prefix))) = chars(prefix)

(***************************************************************************)
(* Table Product.  The API never writes it; the rows are the catalogue the *)
(* store was seeded with.  fulfilmentWebhook is the fulfilment target.     *)
(***************************************************************************)
Products ==
    { [sku |-> COPYKIT_MONTHLY,    fulfilmentWebhook |-> TRUE],
      [sku |-> DAILYBRIEF_MONTHLY, fulfilmentWebhook |-> TRUE],
      [sku |-> UNKNOWN_XYZ,        fulfilmentWebhook |-> TRUE],
      [sku |-> COPYKIT_LITE,       fulfilmentWebhook |-> FALSE] }

\* db.product.find_unique(where={'sku': sku}); {} stands for None
product_find_unique(sku) == {p \in products : p.sku = sku}

(***************************************************************************)
(* The store as the handlers see it, and the outcome of a handler          *)
(***************************************************************************)
\* calls: the calls the request has made so far, in order
Store ==
    [order |-> orders, subscription |-> subscriptions, automationlog |-> <<>>,
     calls |-> <<>>]

Call(S, call) == [S EXCEPT !.calls = Append(@, call)]

Absent == "<none>"          \* dict.get(...) found no value

\* a or b, on values that are a non-empty string or None
first_present(a, b) == IF a # Absent THEN a ELSE b

\* Decimal(n), not divided
minor_as_major(n) == [whole |-> n, frac |-> 0]

\* Decimal(n) / 100 for an integer n >= 0, as whole units and hundredths
minor_to_major(n) == [whole |-> n \div 100, frac |-> n % 100]

\* Decimal(value) for a PayPal amount string with two decimals, given as
\* its digits without the point
decimal_of_value(digits) == [whole |-> digits \div 100, frac |-> digits % 100]

Null == "null"
Stamp == "set"              \* a datetime.utcnow() value

NoOrder == [id |-> 0]

\* The outcome of a call: the store as the call left it, the exception it
\* raised ("none": it returned), and the handler's local `order` once
\* db.order.create has returned it.
Ok(S) == [store |-> S, raised |-> "none", order |-> NoOrder]
Raise(S, e) == [store |-> S, raised |-> e, order |-> NoOrder]

\* Steps of a handler that can be made to raise by the environment
\*   extract       reading the event (a required key is missing) or the Stripe
\*                 line-item lookup, i.e. any step before the order is created
\*   fulfil_write  the db.order.update that marks the order fulfilled
\*   log_write     every db.automationlog.create of the request
Faults == {"none", "extract", "fulfil_write", "log_write"}

(***************************************************************************)
(* ORM calls.  Every query on a handle that is not connected raises        *)
(* ClientNotConnectedError.                                                *)
(***************************************************************************)

\* A table Order without the unique key
order_key_unchecked(S, gateway, txn) == FALSE

\* The unique key of table Order: (gateway, gateway_transaction_id)
order_key_taken(S, gateway, txn) ==
    \E i \in DOMAIN S.order :
        /\ S.order[i].gateway = gateway
        /\ S.order[i].gatewayTransactionId = txn

\* The row of db.order.create(data={... 'status': 'paid', ..., 'fulfilled': False})
new_order(id, data) ==
    [id |-> id,
     gateway |-> data.gateway,
     gatewayTransactionId |-> data.gatewayTransactionId,
     status |-> "paid",
     amountGbp |-> data.amountGbp,
     buyerEmail |-> data.buyerEmail,
     sku |-> data.sku,
     fulfilled |-> FALSE,
     fulfilledAt |-> Null]

db_order_create(S, conn, data) ==
    IF ~conn THEN Raise(Call(S, <<"db.order.create">>), "ClientNotConnectedError")
    ELSE IF order_key_taken(S, data.gateway, data.gatewayTransactionId)
    THEN Raise(Call(S, <<"db.order.create">>), "UniqueViolationError")
    ELSE [store |-> [Call(S, <<"db.order.create">>)
                        EXCEPT !.order = Append(@, new_order(Len(S.order) + 1, data))],
          raised |-> "none",
          order |-> new_order(Len(S.order) + 1, data)]

\* db.order.find_first(where={'gatewayTransactionId': txn}): the candidates.
\* The query names no gateway and no ordering, so any matching row may be
\* the one returned; 0 stands for None.
order_find_first(S, txn) ==
    IF \E i \in DOMAIN S.order : S.order[i].gatewayTransactionId = txn
    THEN {i \in DOMAIN S.order : S.order[i].gatewayTransactionId = txn}
    ELSE {0}

\* db.order.update(where={'id': id}, data={'status': status})
db_order_update_status(S, id, status) ==
    [S EXCEPT !.order[id].status = status]

\* An update that writes nothing
db_order_update_nothing(S, conn, fault, id) == Ok(S)

\* An update that sets fulfilled and leaves fulfilledAt as it was
db_order_update_flag_only(S, conn, fault, id) ==
    IF ~conn THEN Raise(S, "ClientNotConnectedError")
    ELSE IF fault = "fulfil_write" THEN Raise(S, "DatabaseError")
    ELSE Ok([S EXCEPT !.order[id].fulfilled = TRUE])

\* db.order.update(where={'id': id}, data={'fulfilled': True, 'fulfilledAt': utcnow()})
db_order_update_fulfilled(S, conn, fault, id) ==
    IF ~conn THEN Raise(S, "ClientNotConnectedError")
    ELSE IF fault = "fulfil_write" THEN Raise(S, "DatabaseError")
    ELSE Ok([S EXCEPT !.order[id].fulfilled = TRUE, !.order[id].fulfilledAt = Stamp])

\* log_automation: one AutomationLog row; the write raises to the caller
log_automation(S, conn, fault, automation_id, status) ==
    IF ~conn
    THEN Raise(Call(S, <<"log_automation", automation_id, status>>), "ClientNotConnectedError")
    ELSE IF fault = "log_write"
    THEN Raise(Call(S, <<"log_automation", automation_id, status>>), "DatabaseError")
    ELSE Ok([Call(S, <<"log_automation", automation_id, status>>)
                EXCEPT !.automationlog = Append(@,
                    [automationId |-> automation_id, status |-> status])])

\* The last statement of a try block: log_automation(..., 'completed'),
\* reached unless a statement before it raised.  What was written before an
\* exception stays written.
log_completed(r, conn, fault, automation_id) ==
    IF r.raised # "none" THEN r
    ELSE [log_automation(r.store, conn, fault, automation_id, "completed")
            EXCEPT !.order = r.order]

\* raise, after the 'failed' row was written; the log's own exception if
\* the log write raised
reraise(logged, e) ==
    IF logged.raised = "none" THEN Raise(logged.store, e) ELSE logged

\* except Exception as e: log_automation(..., 'failed', ...); raise
except_log_failed(r, conn, fault, automation_id) ==
    IF r.raised = "none" THEN r
    ELSE [reraise(log_automation(r.store, conn, fault, automation_id, "failed"), r.raised)
            EXCEPT !.order = r.order]

(***************************************************************************)
(* Fulfilment                                                              *)
(***************************************************************************)

\* The body shared by fulfill_copykit and fulfill_briefing: mark the order
\* fulfilled, log 'completed'; on any exception log 'failed' and re-raise.
fulfill_order(S, conn, fault, id) ==
    except_log_failed(
        log_completed(db_order_update_fulfilled(S, conn, fault, id),
                      conn, fault, "A4-copykit-fulfilment"),
        conn, fault, "A4-copykit-fulfilment")

fulfill_copykit(S, conn, fault, id) == fulfill_order(S, conn, fault, id)

fulfill_briefing(S, conn, fault, id) == fulfill_order(S, conn, fault, id)

\* A dispatch that sends every order down the CopyKit path
dispatch_all_to_copykit(S, conn, fault, id) == fulfill_copykit(S, conn, fault, id)

\* The dispatch proper, on the sku of the order
dispatch_on_sku(S, conn, fault, id) ==
    IF startswith(S.order[id].sku, "COPYKIT") THEN fulfill_copykit(S, conn, fault, id)
    ELSE IF startswith(S.order[id].sku, "DAILYBRIEF") THEN fulfill_briefing(S, conn, fault, id)
    ELSE Ok(S)

trigger_fulfillment(S, conn, fault, id) ==
    dispatch_on_sku(Call(S, <<"trigger_fulfillment">>), conn, fault, id)

(***************************************************************************)
(* Order handlers                                                          *)
(***************************************************************************)

\* sku = metadata.get('sku', 'UNKNOWN') / payment.get('custom_id', 'UNKNOWN')
resolve_sku(event_sku) == IF event_sku = NoSku THEN UNKNOWN ELSE event_sku

\* A lookup that dispatches for every Product row, target or not
fulfil_if_product(created, conn, fault, sku) ==
    IF created.raised # "none" THEN created
    ELSE IF product_find_unique(sku) # {}
    THEN [trigger_fulfillment(created.store, conn, fault, Len(created.store.order))
            EXCEPT !.order = created.order]
    ELSE created

\* product = db.product.find_unique(...); if product and
\* product.fulfilmentWebhook: trigger_fulfillment(order).  created is the
\* outcome of db.order.create, whose row is the last one of the table.
fulfil_if_target(created, conn, fault, sku) ==
    IF created.raised # "none" THEN created
    ELSE IF \E p \in product_find_unique(sku) : p.fulfilmentWebhook
    THEN [trigger_fulfillment(created.store, conn, fault, Len(created.store.order))
            EXCEPT !.order = created.order]
    ELSE created

\* The try block shared by handle_stripe_checkout_completed and
\* handle_paypal_payment_completed: create the order, look the product up,
\* fulfil if it has a fulfilment target, log 'completed'.  data is the data
\* of db.order.create as the handler extracted it from the event.
checkout_try(S, conn, fault, data) ==
    IF fault = "extract" THEN Raise(S, "KeyError")
    ELSE log_completed(
            fulfil_if_target(db_order_create(S, conn, data), conn, fault, data.sku),
            conn, fault, "A2-checkout-webhooks")

\* try / except: on any exception log 'failed' and re-raise
checkout_completed(S, conn, fault, data) ==
    except_log_failed(checkout_try(S, conn, fault, data),
                      conn, fault, "A2-checkout-webhooks")

\* Extract session data (Stripe)
stripe_order_data(session) ==
    [gateway |-> "stripe",
     gatewayTransactionId |-> session.ref,
     amountGbp |-> minor_to_major(session.amount),
     buyerEmail |-> first_present(session.customer_email, session.details_email),
     sku |-> resolve_sku(session.sku)]

\* Extract payment data (PayPal)
paypal_order_data(payment) ==
    [gateway |-> "paypal",
     gatewayTransactionId |-> payment.ref,
     amountGbp |-> decimal_of_value(payment.amount),
     buyerEmail |-> payment.customer_email,
     sku |-> resolve_sku(payment.sku)]

handle_stripe_checkout_completed(S, conn, ev) ==
    checkout_completed(S, conn, ev.fault, stripe_order_data(ev))

handle_paypal_payment_completed(S, conn, ev) ==
    checkout_completed(S, conn, ev.fault, paypal_order_data(ev))

\* find the order by transaction id alone and set its status; nothing when
\* find_first returned None
set_status_by_txn(S, conn, ev, pick, status) ==
    IF ev.fault = "extract" THEN Raise(S, "KeyError")
    ELSE IF ~conn THEN Raise(S, "ClientNotConnectedError")
    ELSE IF pick = 0 THEN Ok(S)
    ELSE Ok(db_order_update_status(S, pick, status))

\* A refund handler that puts the order back to paid
handle_stripe_refund_to_paid(S, conn, ev, pick) == set_status_by_txn(S, conn, ev, pick, "paid")

handle_stripe_refund(S, conn, ev, pick) == set_status_by_txn(S, conn, ev, pick, "refunded")

handle_stripe_dispute(S, conn, ev, pick) == set_status_by_txn(S, conn, ev, pick, "disputed")

\* A refund handler that marks the order disputed
handle_paypal_refund_as_dispute(S, conn, ev, pick) == set_status_by_txn(S, conn, ev, pick, "disputed")

handle_paypal_refund(S, conn, ev, pick) == set_status_by_txn(S, conn, ev, pick, "refunded")

(***************************************************************************)
(* Subscription handlers                                                   *)
(***************************************************************************)

\* The unique key of table Subscription: (gateway, gateway_subscription_id)
subscription_key_taken(S, gateway, sub_id) ==
    \E i \in DOMAIN S.subscription :
        /\ S.subscription[i].gateway = gateway
        /\ S.subscription[i].gatewaySubscriptionId = sub_id

db_subscription_create(S, conn, row) ==
    IF ~conn THEN Raise(S, "ClientNotConnectedError")
    ELSE IF subscription_key_taken(S, row.gateway, row.gatewaySubscriptionId)
         THEN Raise(S, "UniqueViolationError")
    ELSE Ok([S EXCEPT !.subscription = Append(@, row)])

\* db.subscription.update(where={'gatewaySubscriptionId': sub_id}, ...): the
\* candidates; the query names no gateway.  0 stands for "no such row", for
\* which update returns None and writes nothing.
subscription_find(S, sub_id) ==
    IF \E i \in DOMAIN S.subscription : S.subscription[i].gatewaySubscriptionId = sub_id
    THEN {i \in DOMAIN S.subscription : S.subscription[i].gatewaySubscriptionId = sub_id}
    ELSE {0}

handle_stripe_subscription_created(S, conn, ev) ==
    IF ev.fault = "extract" THEN Raise(S, "StripeError")
    ELSE db_subscription_create(S, conn,
            [gateway |-> "stripe",
             gatewaySubscriptionId |-> ev.ref,
             sku |-> resolve_sku(ev.sku),
             status |-> ev.status,
             currentPeriodStart |-> ev.period,
             currentPeriodEnd |-> ev.period + 1,
             cancelAtPeriodEnd |-> ev.cancel_at_period_end,
             cancelledAt |-> Null])

handle_stripe_subscription_updated(S, conn, ev, pick) ==
    IF ev.fault = "extract" THEN Raise(S, "KeyError")
    ELSE IF ~conn THEN Raise(S, "ClientNotConnectedError")
    ELSE IF pick = 0 THEN Ok(S)
    ELSE Ok([S EXCEPT !.subscription[pick].status = ev.status,
                      !.subscription[pick].currentPeriodStart = ev.period,
                      !.subscription[pick].currentPeriodEnd = ev.period + 1,
                      !.subscription[pick].cancelAtPeriodEnd = ev.cancel_at_period_end])

\* The body shared by handle_stripe_subscription_deleted and
\* handle_paypal_subscription_cancelled.
subscription_cancel(S, conn, ev, pick) ==
    IF ev.fault = "extract" THEN Raise(S, "KeyError")
    ELSE IF ~conn THEN Raise(S, "ClientNotConnectedError")
    ELSE IF pick = 0 THEN Ok(S)
    ELSE Ok([S EXCEPT !.subscription[pick].status = "cancelled",
                      !.subscription[pick].cancelledAt = Stamp])

handle_stripe_subscription_deleted(S, conn, ev, pick) == subscription_cancel(S, conn, ev, pick)

handle_paypal_subscription_cancelled(S, conn, ev, pick) == subscription_cancel(S, conn, ev, pick)

handle_paypal_subscription_created(S, conn, ev) ==
    IF ev.fault = "extract" THEN Raise(S, "KeyError")
    ELSE db_subscription_create(S, conn,
            [gateway |-> "paypal",
             gatewaySubscriptionId |-> ev.ref,
             sku |-> resolve_sku(ev.sku),
             status |-> "active",
             currentPeriodStart |-> ev.period,
             currentPeriodEnd |-> 0,
             cancelAtPeriodEnd |-> FALSE,
             cancelledAt |-> Null])

(***************************************************************************)
(* Signature / content validation and the two webhook routes               *)
(***************************************************************************)

\* Verification that is permissive everywhere but in production
verify_stripe_signature_outside_production(secret, env, sig_ok) ==
    IF ~secret THEN env # "production" ELSE sig_ok

verify_stripe_signature(secret, env, sig_ok) ==
    IF ~secret THEN env = "development" ELSE sig_ok

verify_paypal_signature(env) == env # "production"

StripeHandled ==
    {"checkout.session.completed", "customer.subscription.created",
     "customer.subscription.updated", "customer.subscription.deleted",
     "charge.refunded", "charge.dispute.created"}

PayPalHandled ==
    {"PAYMENT.CAPTURE.COMPLETED", "BILLING.SUBSCRIPTION.CREATED",
     "BILLING.SUBSCRIPTION.CANCELLED", "PAYMENT.CAPTURE.REFUNDED"}

\* The response of a route, with what the route did to the store
Respond(out, code, body) ==
    [store |-> out.store, raised |-> out.raised, code |-> code, body |-> body,
     order |-> out.order]

RespondWebhook(out) ==
    IF out.raised = "none" THEN Respond(out, 200, "received") ELSE Respond(out, 500, "error")

\* A dispatch that raises on an event type it has no handler for
stripe_dispatch_strict(S, conn, ev, pick) ==
    RespondWebhook(
        IF ev.type \in StripeHandled THEN Ok(S) ELSE Raise(S, "UnhandledEventType"))

\* try: dispatch on the event type, return 200 / except: return 500
stripe_dispatch(S, conn, ev, pick) ==
    RespondWebhook(
        IF ev.type = "checkout.session.completed"
        THEN handle_stripe_checkout_completed(S, conn, ev)
        ELSE IF ev.type = "customer.subscription.created"
        THEN handle_stripe_subscription_created(S, conn, ev)
        ELSE IF ev.type = "customer.subscription.updated"
        THEN handle_stripe_subscription_updated(S, conn, ev, pick)
        ELSE IF ev.type = "customer.subscription.deleted"
        THEN handle_stripe_subscription_deleted(S, conn, ev, pick)
        ELSE IF ev.type = "charge.refunded"
        THEN handle_stripe_refund(S, conn, ev, pick)
        ELSE IF ev.type = "charge.dispute.created"
        THEN handle_stripe_dispute(S, conn, ev, pick)
        ELSE Ok(S))

stripe_webhook(S, conn, env, secret, req, pick) ==
    IF req.content_type # "application/json"
    THEN Respond(Ok(S), 400, "Invalid content type")
    ELSE IF ~verify_stripe_signature(secret, env, req.sig_ok)
    THEN Respond(Ok(S), 401, "Invalid signature")
    ELSE stripe_dispatch(S, conn, req.event, pick)

paypal_dispatch(S, conn, ev, pick) ==
    RespondWebhook(
        IF ev.type = "PAYMENT.CAPTURE.COMPLETED"
        THEN handle_paypal_payment_completed(S, conn, ev)
        ELSE IF ev.type = "BILLING.SUBSCRIPTION.CREATED"
        THEN handle_paypal_subscription_created(S, conn, ev)
        ELSE IF ev.type = "BILLING.SUBSCRIPTION.CANCELLED"
        THEN handle_paypal_subscription_cancelled(S, conn, ev, pick)
        ELSE IF ev.type = "PAYMENT.CAPTURE.REFUNDED"
        THEN handle_paypal_refund(S, conn, ev, pick)
        ELSE Ok(S))

\* A PayPal route that never looks at the signature
paypal_webhook_unverified(S, conn, env, req, pick) ==
    IF req.content_type # "application/json"
    THEN Respond(Ok(S), 400, "Invalid content type")
    ELSE paypal_dispatch(S, conn, req.event, pick)

\* request.get_json() runs first; with a content type that is not JSON it
\* either returns None or aborts with 400, and the content-type test that
\* follows answers 400 as well.
paypal_webhook(S, conn, env, req, pick) ==
    IF req.content_type # "application/json"
    THEN Respond(Ok(S), 400, "Invalid content type")
    ELSE IF ~verify_paypal_signature(env)
    THEN Respond(Ok(S), 401, "Invalid signature")
    ELSE paypal_dispatch(S, conn, req.event, pick)

(***************************************************************************)
(* Manual fulfilment endpoints and the health check                        *)
(***************************************************************************)

\* POST /api/fulfilment/copykit and /api/fulfilment/briefing, body {order_id}.
\* order_id 0 stands for a body without order_id.  find_unique runs outside
\* the try block: its exception reaches the catch-all error handler (500).
RespondFulfilled(out) ==
    IF out.raised = "none" THEN Respond(out, 200, "success") ELSE Respond(out, 500, "error")

api_fulfill(S, conn, order_id) ==
    IF order_id = 0 THEN Respond(Ok(S), 400, "order_id required")
    ELSE IF ~conn THEN Respond(Raise(S, "ClientNotConnectedError"), 500, "error")
    ELSE IF order_id \notin DOMAIN S.order THEN Respond(Ok(S), 404, "Order not found")
    ELSE RespondFulfilled(fulfill_order(S, conn, "none", order_id))

api_fulfill_copykit(S, conn, order_id) == api_fulfill(S, conn, order_id)

api_fulfill_briefing(S, conn, order_id) == api_fulfill(S, conn, order_id)

\* GET /health: db.connect(); db.lead.count(); db.disconnect() inside a try.
\* connect() on a handle that is already connected raises, and the handle
\* stays as it was.  The result is <<database status, connected afterwards>>.
health_check_db(conn) ==
    IF conn THEN <<"unhealthy", TRUE>> ELSE <<"healthy", FALSE>>

health_check(S, conn, stripe_ok) ==
    IF health_check_db(conn)[1] = "healthy" /\ stripe_ok
    THEN Respond(Ok(S), 200, "healthy")
    ELSE Respond(Ok(S), 503, "degraded")

(***************************************************************************)
(* Requests                                                                *)
(***************************************************************************)
\* amount: amount_total in minor units (Stripe) or the digits of
\* amount.value (PayPal); customer_email: session.customer_email or
\* payer.email_address; details_email: session.customer_details.email
Event(type, ref, sku, fault, status, period, cape) ==
    [type |-> type, ref |-> ref, sku |-> sku, fault |-> fault,
     status |-> status, period |-> period, cancel_at_period_end |-> cape,
     amount |-> 4900, customer_email |-> "a@b.com", details_email |-> Absent]

WithPayment(ev, amount, customer_email, details_email) ==
    [ev EXCEPT !.amount = amount, !.customer_email = customer_email,
               !.details_email = details_email]

NoEvent == Event("none", "none", NoSku, "none", "none", 0, FALSE)

OrderEvents(types, refs, skus, faults) ==
    {Event(t, r, k, f, "none", 0, FALSE) : t \in types, r \in refs, k \in skus, f \in faults}

SubscriptionEvents(types, refs, faults, statuses, periods, capes) ==
    {Event(t, r, NoSku, f, st, p, c) :
        t \in types, r \in refs, f \in faults, st \in statuses, p \in periods, c \in capes}

\* What find_first / update(where=...) may return for the event
Picks(S, ev) ==
    IF ev.type \in {"charge.refunded", "charge.dispute.created", "PAYMENT.CAPTURE.REFUNDED"}
    THEN order_find_first(S, ev.ref)
    ELSE IF ev.type \in {"customer.subscription.updated", "customer.subscription.deleted",
                         "BILLING.SUBSCRIPTION.CANCELLED"}
    THEN subscription_find(S, ev.ref)
    ELSE {0}

WithinBounds(S) ==
    /\ Len(S.order) <= MaxOrders
    /\ Len(S.subscription) <= MaxSubscriptions

\* @app.before_first_request startup(): db.connect(), once per process.
\* The value is db.is_connected() as the route sees it.
startup == IF started THEN connected ELSE TRUE

\* @app.teardown_appcontext shutdown(): if db.is_connected(): db.disconnect().
\* The value is db.is_connected() after the hook.
shutdown(conn) == FALSE

\* A request as the routes read it.  sig_ok: the Stripe-Signature header
\* matches the payload under the configured secret.
Request(content_type, sig_ok, ev) ==
    [content_type |-> content_type, sig_ok |-> sig_ok, event |-> ev]

NoRequest == Request("none", FALSE, NoEvent)

Summary(req) ==
    [content_type |-> req.content_type, sig_ok |-> req.sig_ok, event |-> req.event]

\* The whole of one request: startup hook, route, store writes, teardown hook
Serve(endpoint, req, out, conn_after_route) ==
    /\ WithinBounds(out.store)
    /\ orders' = out.store.order
    /\ subscriptions' = out.store.subscription
    /\ logs' = out.store.automationlog
    /\ started' = TRUE
    /\ connected' = shutdown(conn_after_route)
    /\ last' = [endpoint |-> endpoint, request |-> Summary(req), code |-> out.code,
                body |-> out.body, raised |-> out.raised, order |-> out.order,
                calls |-> out.store.calls]
    /\ UNCHANGED <<ENVIRONMENT, STRIPE_WEBHOOK_SECRET, products, leads,
                   migrations, assets, kpi>>

\* The files of database/migrations, each named by the digits of its file
\* name: 1.sql, 10.sql, 2.sql
MigrationFiles == {<<1>>, <<1, 0>>, <<2>>}

\* No row of table migrations for the file
NoRow == "no row"

NoKpi == [leads |-> 0, orders |-> 0, grossGbp |-> 0, refunds |-> 0, exists |-> FALSE]

InitStore ==
    /\ migrations = [f \in MigrationFiles |-> NoRow]
    /\ assets = 0
    /\ kpi = NoKpi
    /\ orders = <<>>
    /\ subscriptions = <<>>
    /\ logs = <<>>
    /\ connected = FALSE
    /\ started = FALSE
    /\ leads = <<>>
    /\ last = [endpoint |-> "none", request |-> Summary(NoRequest), code |-> 0,
               body |-> "none", raised |-> "none", order |-> NoOrder, calls |-> <<>>]

\* Whether the Stripe-Signature header matches the payload under the secret;
\* without a secret the header is never looked at.
SignatureInputs == IF STRIPE_WEBHOOK_SECRET THEN BOOLEAN ELSE {FALSE}

\* POST /webhooks/stripe answered 400 or 401
StripeWebhookRejected ==
    \E ct \in ContentTypes, sig_ok \in SignatureInputs :
      \E req \in {Request(ct, sig_ok, NoEvent)} :
        \E out \in {stripe_webhook(Store, startup, ENVIRONMENT, STRIPE_WEBHOOK_SECRET, req, 0)} :
            /\ out.code \in {400, 401}
            /\ Serve("/webhooks/stripe", req, out, startup)

\* POST /webhooks/stripe that passes validation
StripeWebhook(events) ==
    \E ev \in events, sig_ok \in SignatureInputs :
      \E pick \in Picks(Store, ev), req \in {Request("application/json", sig_ok, ev)} :
        \E out \in {stripe_webhook(Store, startup, ENVIRONMENT, STRIPE_WEBHOOK_SECRET, req, pick)} :
            /\ out.code \notin {400, 401}
            /\ Serve("/webhooks/stripe", req, out, startup)

\* POST /webhooks/paypal answered 400 or 401
PayPalWebhookRejected ==
    \E ct \in ContentTypes :
      \E req \in {Request(ct, FALSE, NoEvent)} :
        \E out \in {paypal_webhook(Store, startup, ENVIRONMENT, req, 0)} :
            /\ out.code \in {400, 401}
            /\ Serve("/webhooks/paypal", req, out, startup)

\* POST /webhooks/paypal that passes validation
PayPalWebhook(events) ==
    \E ev \in events :
      \E pick \in Picks(Store, ev), req \in {Request("application/json", FALSE, ev)} :
        \E out \in {paypal_webhook(Store, startup, ENVIRONMENT, req, pick)} :
            /\ out.code \notin {400, 401}
            /\ Serve("/webhooks/paypal", req, out, startup)

FulfilCopykit ==
    \E order_id \in 0..MaxOrders :
      \E out \in {api_fulfill_copykit(Store, startup, order_id)} :
        Serve("/api/fulfilment/copykit", NoRequest, out, startup)

FulfilBriefing ==
    \E order_id \in 0..MaxOrders :
      \E out \in {api_fulfill_briefing(Store, startup, order_id)} :
        Serve("/api/fulfilment/briefing", NoRequest, out, startup)

HealthCheck ==
    \E stripe_ok \in BOOLEAN :
      \E out \in {health_check(Store, startup, stripe_ok)} :
        Serve("/health", NoRequest, out, health_check_db(startup)[2])

\* A fresh API process (deploy, worker recycle) over the same store
Restart ==
    /\ started
    /\ started' = FALSE
    /\ connected' = FALSE
    /\ logs' = <<>>
    /\ last' = [endpoint |-> "restart", request |-> Summary(NoRequest), code |-> 0,
                body |-> "none", raised |-> "none", order |-> NoOrder, calls |-> <<>>]
    /\ UNCHANGED <<orders, subscriptions, ENVIRONMENT, STRIPE_WEBHOOK_SECRET, products, leads,
                   migrations, assets, kpi>>

(***************************************************************************)
(* Specification of the order lifecycle: every order event of both         *)
(* gateways, the fulfilment endpoints and restarts, in a deployment that   *)
(* accepts every well-formed webhook (development, no Stripe secret).  The *)
(* handlers never read the deployment environment.                         *)
(***************************************************************************)
\* The metadata of a payment is fixed, so every delivery for a transaction
\* carries the same sku: T1 was a COPYKIT-MONTHLY purchase on either gateway,
\* T2 a purchase whose session has no metadata.sku.
StripeOrderEvents ==
    OrderEvents({"checkout.session.completed"}, {"T1"}, {COPYKIT_MONTHLY}, Faults)
    \cup OrderEvents({"checkout.session.completed"}, {"T2"}, {NoSku}, Faults)
    \cup OrderEvents({"charge.refunded", "charge.dispute.created", "invoice.paid"},
                     TxnIds, {NoSku}, {"none"})

PayPalOrderEvents ==
    OrderEvents({"PAYMENT.CAPTURE.COMPLETED"}, PayPalTxnIds, {COPYKIT_MONTHLY},
                {"none", "fulfil_write"})
    \cup OrderEvents({"PAYMENT.CAPTURE.REFUNDED", "CUSTOMER.DISPUTE.CREATED"},
                     PayPalTxnIds, {NoSku}, {"none"})

InitOrders ==
    /\ InitStore
    /\ ENVIRONMENT = "development"
    /\ STRIPE_WEBHOOK_SECRET = FALSE
    /\ products = Products

NextOrders ==
    \/ StripeWebhookRejected
    \/ StripeWebhook(StripeOrderEvents)
    \/ PayPalWebhookRejected
    \/ PayPalWebhook(PayPalOrderEvents)
    \/ FulfilCopykit
    \/ FulfilBriefing
    \/ Restart

SpecOrders == InitOrders /\ [][NextOrders]_vars

(***************************************************************************)
(* Specification of validation and routing: every deployment environment,  *)
(* with and without a Stripe secret, one event of every type, the health   *)
(* check and restarts.                                                     *)
(***************************************************************************)
StripeSampleEvents ==
    OrderEvents({"checkout.session.completed"}, {"T1"}, {COPYKIT_MONTHLY}, {"none"})
    \cup OrderEvents({"charge.refunded", "charge.dispute.created", "invoice.paid"},
                     {"T1"}, {NoSku}, {"none"})
    \cup SubscriptionEvents({"customer.subscription.created", "customer.subscription.updated"},
                            SubIds, {"none"}, {"active"}, {1}, {FALSE})
    \cup SubscriptionEvents({"customer.subscription.deleted"},
                            SubIds, {"none"}, {"none"}, {0}, {FALSE})

PayPalSampleEvents ==
    OrderEvents({"PAYMENT.CAPTURE.COMPLETED"}, {"T1"}, {NoSku}, {"none"})
    \cup OrderEvents({"PAYMENT.CAPTURE.REFUNDED", "CUSTOMER.DISPUTE.CREATED"},
                     {"T1"}, {NoSku}, {"none"})
    \cup SubscriptionEvents({"BILLING.SUBSCRIPTION.CREATED"},
                            SubIds, {"none"}, {"none"}, {1}, {FALSE})
    \cup SubscriptionEvents({"BILLING.SUBSCRIPTION.CANCELLED"},
                            SubIds, {"none"}, {"none"}, {0}, {FALSE})

Init ==
    /\ InitStore
    /\ ENVIRONMENT \in Environments
    /\ STRIPE_WEBHOOK_SECRET \in BOOLEAN
    /\ products = Products

Next ==
    \/ StripeWebhookRejected
    \/ StripeWebhook(StripeSampleEvents)
    \/ PayPalWebhookRejected
    \/ PayPalWebhook(PayPalSampleEvents)
    \/ HealthCheck
    \/ Restart

Spec == Init /\ [][Next]_vars

(***************************************************************************)
(* Specification of fulfilment: checkout events of every kind of sku over  *)
(* three Product catalogues (the seeded one, one in which every sku has a  *)
(* fulfilment target, an empty one), the fulfilment endpoints and          *)
(* restarts.                                                               *)
(***************************************************************************)
AllSkus == {COPYKIT_MONTHLY, COPYKIT_LITE, DAILYBRIEF_MONTHLY, UNKNOWN_XYZ, UNKNOWN}

Catalogues ==
    { Products,
      {[sku |-> k, fulfilmentWebhook |-> TRUE] : k \in AllSkus},
      {} }

FulfilStripeEvents ==
    OrderEvents({"checkout.session.completed"}, {"T1"},
                {COPYKIT_MONTHLY, COPYKIT_LITE, DAILYBRIEF_MONTHLY, UNKNOWN_XYZ, NoSku},
                {"none", "fulfil_write"})

FulfilPayPalEvents ==
    OrderEvents({"PAYMENT.CAPTURE.COMPLETED"}, {"T1"}, {DAILYBRIEF_MONTHLY, NoSku}, {"none"})

InitFulfil ==
    /\ InitStore
    /\ ENVIRONMENT = "development"
    /\ STRIPE_WEBHOOK_SECRET = FALSE
    /\ products \in Catalogues

NextFulfil ==
    \/ StripeWebhook(FulfilStripeEvents)
    \/ PayPalWebhook(FulfilPayPalEvents)
    \/ FulfilCopykit
    \/ FulfilBriefing
    \/ Restart

SpecFulfil == InitFulfil /\ [][NextFulfil]_vars

(***************************************************************************)
(* Specification of order recording: checkout events of both gateways with *)
(* several amounts and with the customer email in either place of the      *)
(* Stripe session, and restarts.                                           *)
(***************************************************************************)
Amounts == {4900, 1999, 5}

\* (customer_email, customer_details.email) of a Stripe session
Emails == {<<"a@b.com", Absent>>, <<Absent, "c@d.com">>, <<"a@b.com", "c@d.com">>}

CheckoutStripeEvents ==
    {WithPayment(ev, n, e[1], e[2]) :
        ev \in OrderEvents({"checkout.session.completed"}, {"T1"},
                           {COPYKIT_MONTHLY, NoSku}, {"none", "extract"}),
        n \in Amounts, e \in Emails}

CheckoutPayPalEvents ==
    {WithPayment(ev, n, "a@b.com", Absent) :
        ev \in OrderEvents({"PAYMENT.CAPTURE.COMPLETED"}, PayPalTxnIds, {NoSku}, {"none"}),
        n \in {4900, 1999}}

InitCheckout ==
    /\ InitStore
    /\ ENVIRONMENT = "development"
    /\ STRIPE_WEBHOOK_SECRET = FALSE
    /\ products = Products

NextCheckout ==
    \/ StripeWebhook(CheckoutStripeEvents)
    \/ PayPalWebhook(CheckoutPayPalEvents)
    \/ Restart

SpecCheckout == InitCheckout /\ [][NextCheckout]_vars

(***************************************************************************)
(* Lead intake script (automations/lead_intake.py).  A Lead row is modelled *)
(* by its email, name, source and tags; the utm fields follow the pattern  *)
(* of name.  The script connects the client in main() before process_lead. *)
(***************************************************************************)
LeadEmails == {"a@b.com", "c@d.com"}

LeadNames == {Absent, "n1"}

\* lead_data.get('tags', []) as submitted; a list may repeat a tag
LeadTags == {<<>>, <<"t1">>, <<"t2">>, <<"t1", "t2">>, <<"t1", "t1">>}

LeadData == [email : LeadEmails, name : LeadNames, tags : LeadTags]

\* set(list)
set(list) == {list[k] : k \in DOMAIN list}

\* list(set): the elements once each, in an order the language leaves open
list(T) ==
    {q \in [1..Cardinality(T) -> T] : \A i, j \in 1..Cardinality(T) : i # j => q[i] # q[j]}

\* db.lead.find_unique(where={'email': email}): the indices of the row
lead_find_unique(L, email) == {i \in DOMAIN L : L[i].email = email}

\* dict.get(key, default)
get(value, default) == IF value = Absent THEN default ELSE value

\* db.lead.create(data=...)
db_lead_create(L, lead_data) ==
    Append(L, [email |-> lead_data.email,
               name |-> get(lead_data.name, Null),
               source |-> "Manual",
               tags |-> lead_data.tags])

\* db.lead.update(where={'email': ...}, data=...) with the given tags
db_lead_update(L, i, lead_data, tags) ==
    [L EXCEPT ![i] = [email |-> L[i].email,
                      name |-> get(lead_data.name, L[i].name),
                      source |-> L[i].source,
                      tags |-> tags]]

\* An upsert that overwrites the tags of an existing lead
upsert_lead_overwriting(L, lead_data, fault) ==
    IF fault # "none" THEN {[leads |-> L, raised |-> "DatabaseError"]}
    ELSE IF lead_find_unique(L, lead_data.email) # {}
    THEN {[leads |-> db_lead_update(L, i, lead_data, lead_data.tags), raised |-> "none"] :
            i \in lead_find_unique(L, lead_data.email)}
    ELSE {[leads |-> db_lead_create(L, lead_data), raised |-> "none"]}

\* upsert_lead: the outcomes; an exception of the client is re-raised
upsert_lead(L, lead_data, fault) ==
    IF fault # "none" THEN {[leads |-> L, raised |-> "DatabaseError"]}
    ELSE IF lead_find_unique(L, lead_data.email) # {}
    THEN UNION {{[leads |-> db_lead_update(L, i, lead_data, tags), raised |-> "none"] :
                    tags \in list(set(L[i].tags \o lead_data.tags))} :
                i \in lead_find_unique(L, lead_data.email)}
    ELSE {[leads |-> db_lead_create(L, lead_data), raised |-> "none"]}

\* One call of upsert_lead
UpsertLead ==
    \E lead_data \in LeadData, fault \in {"none", "db"} :
      \E out \in upsert_lead(leads, lead_data, fault) :
        /\ leads' = out.leads
        /\ last' = [endpoint |-> "upsert_lead", request |-> lead_data, code |-> 0,
                    body |-> "none", raised |-> out.raised, order |-> NoOrder,
                    calls |-> <<>>]
        /\ UNCHANGED <<orders, subscriptions, logs, connected, started, ENVIRONMENT,
                       STRIPE_WEBHOOK_SECRET, products, migrations, assets, kpi>>

InitLeads ==
    /\ InitStore
    /\ ENVIRONMENT = "development"
    /\ STRIPE_WEBHOOK_SECRET = FALSE
    /\ products = Products

NextLeads == UpsertLead

SpecLeads == InitLeads /\ [][NextLeads]_vars

(***************************************************************************)
(* POST /api/leads (create_lead).  Here the texts of a request (email,     *)
(* name, tags) are sequences of characters, so that sanitize_input, the    *)
(* regular expression of validate_email, str.lower and str.strip are       *)
(* computed on the text; a Lead row written by this route holds its email  *)
(* and name as such sequences.                                             *)
(***************************************************************************)
\* a text field that is missing from the body, null or empty
NoText == <<>>

\* None in a text column
NullText == <<"<null>">>

Whitespace == {" ", "\n", "\t"}

Letters == {"a", "b", "c", "o", "n", "t", "A", "B", "C", "O", "N", "T"}

Digits == {"0", "1", "2"}

\* str.lower, character by character
lower_char(c) ==
    CASE c = "A" -> "a" [] c = "B" -> "b" [] c = "C" -> "c"
      [] c = "O" -> "o" [] c = "N" -> "n" [] c = "T" -> "t"
      [] OTHER -> c

lower(text) == [k \in DOMAIN text |-> lower_char(text[k])]

RECURSIVE lstrip(_)
lstrip(text) ==
    IF text # <<>> /\ Head(text) \in Whitespace THEN lstrip(Tail(text)) ELSE text

RECURSIVE rstrip(_)
rstrip(text) ==
    IF text # <<>> /\ text[Len(text)] \in Whitespace
    THEN rstrip(SubSeq(text, 1, Len(text) - 1))
    ELSE text

\* str.strip
strip(text) == rstrip(lstrip(text))

\* str.replace of the four characters sanitize_input rewrites
sanitize_char(c) ==
    CASE c = "<" -> <<"&", "l", "t", ";">>
      [] c = ">" -> <<"&", "g", "t", ";">>
      [] c = "\"" -> <<"&", "q", "u", "o", "t", ";">>
      [] c = "'" -> <<"&", "#", "x", "2", "7", ";">>
      [] OTHER -> <<c>>

RECURSIVE sanitize_text(_)
sanitize_text(text) ==
    IF text = <<>> THEN <<>> ELSE sanitize_char(Head(text)) \o sanitize_text(Tail(text))

\* sanitize_input on the request body: every string, also inside the tag list
sanitize_input(data) ==
    [data EXCEPT !.email = sanitize_text(@),
                 !.name = sanitize_text(@),
                 !.tags = [k \in DOMAIN @ |-> sanitize_text(@[k])]]

\* where `$` may match: at the end, or before a newline that ends the text
end_of_match(text) ==
    IF text # <<>> /\ text[Len(text)] = "\n" THEN {Len(text), Len(text) - 1} ELSE {Len(text)}

\* re.match(r'^[a-zA-Z0-9._%+-]+@[a-zA-Z0-9.-]+\.[a-zA-Z]{2,}$', email)
validate_email(email) ==
    \E at \in DOMAIN email, dot \in DOMAIN email, end \in end_of_match(email) :
        /\ at > 1
        /\ \A k \in 1..(at - 1) : email[k] \in Letters \cup Digits \cup {".", "_", "%", "+", "-"}
        /\ email[at] = "@"
        /\ dot > at + 1
        /\ \A k \in (at + 1)..(dot - 1) : email[k] \in Letters \cup Digits \cup {".", "-"}
        /\ email[dot] = "."
        /\ end >= dot + 2
        /\ \A k \in (dot + 1)..end : email[k] \in Letters

\* db.lead.find_unique(where={'email': data['email']}) in create_lead: the
\* comparison is on the text as submitted
api_lead_find_unique(L, email) == {i \in DOMAIN L : L[i].email = email}

\* the unique key of table Lead, which find_unique relies on
lead_email_taken(L, email) == \E i \in DOMAIN L : L[i].email = email

\* db.lead.create(data=...) of create_lead
api_lead_row(data) ==
    [email |-> strip(lower(data.email)),
     name |-> IF data.name = NoText THEN NullText ELSE strip(data.name),
     source |-> "Manual",
     tags |-> data.tags]

LeadOut(L, code, body, raised) == [leads |-> L, code |-> code, body |-> body, raised |-> raised]

\* the try block of create_lead; any exception is answered 500
create_lead_try(L, conn, data) ==
    IF ~conn THEN LeadOut(L, 500, "Failed to create lead", "ClientNotConnectedError")
    ELSE IF api_lead_find_unique(L, data.email) # {}
    THEN LeadOut(L, 200, "Lead already exists", "none")
    ELSE IF lead_email_taken(L, api_lead_row(data).email)
    THEN LeadOut(L, 500, "Failed to create lead", "UniqueViolationError")
    ELSE LeadOut(Append(L, api_lead_row(data)), 201, "lead", "none")

\* create_lead after sanitize_input
create_lead_validated(L, conn, data) ==
    IF ~validate_email(data.email) THEN LeadOut(L, 400, "Invalid email format", "none")
    ELSE IF data.name # NoText /\ Len(data.name) > 255
    THEN LeadOut(L, 400, "Name too long (max 255 characters)", "none")
    ELSE create_lead_try(L, conn, data)

\* POST /api/leads: @limiter.limit, @validate_json_schema({'email': str}),
\* then create_lead.  limited: the rate limit of the caller is used up.
create_lead(L, conn, limited, is_json, data) ==
    IF limited THEN LeadOut(L, 429, "rate limit exceeded", "none")
    ELSE IF ~is_json THEN LeadOut(L, 400, "Request must be JSON", "none")
    ELSE IF ~data.has_email THEN LeadOut(L, 400, "Missing required field: email", "none")
    ELSE create_lead_validated(L, conn, sanitize_input(data))

A_B_CO == <<"a", "@", "b", ".", "c", "o">>

ApiEmails ==
    { A_B_CO,
      <<"A", "@", "b", ".", "c", "o">>,
      A_B_CO \o <<"\n">>,
      <<" ">> \o A_B_CO,
      <<"a", "'", "@", "b", ".", "c", "o">>,
      <<"a", "b">> }

ApiNames == {NoText, <<"n">>}

ApiTags == { <<>>, << <<"t", "1">> >>, << <<"t", "2">> >> }

\* has_email: the body has a field email that is a string
ApiLeadData ==
    [has_email : {TRUE}, email : ApiEmails, name : ApiNames, tags : ApiTags]
    \cup [has_email : {TRUE}, email : {<<"c", "@", "b", ".", "c", "o">>},
          name : {NoText}, tags : {<<>>}]
    \cup [has_email : {FALSE}, email : {NoText}, name : {NoText}, tags : {<<>>}]

\* One POST /api/leads with its startup and teardown hooks
CreateLead ==
    \E limited \in BOOLEAN, is_json \in BOOLEAN, data \in ApiLeadData :
      \E out \in {create_lead(leads, startup, limited, is_json, data)} :
        /\ leads' = out.leads
        /\ logs' = <<>>
        /\ started' = TRUE
        /\ connected' = shutdown(startup)
        /\ last' = [endpoint |-> "/api/leads",
                    request |-> [limited |-> limited, is_json |-> is_json, data |-> data],
                    code |-> out.code, body |-> out.body, raised |-> out.raised,
                    order |-> NoOrder, calls |-> <<>>]
        /\ UNCHANGED <<orders, subscriptions, ENVIRONMENT, STRIPE_WEBHOOK_SECRET, products,
                       migrations, assets, kpi>>

InitApiLeads ==
    /\ InitStore
    /\ ENVIRONMENT = "development"
    /\ STRIPE_WEBHOOK_SECRET = FALSE
    /\ products = Products

NextApiLeads ==
    \/ CreateLead
    \/ Restart

SpecApiLeads == InitApiLeads /\ [][NextApiLeads]_vars

(***************************************************************************)
(* The scripts automations/lead_intake.py and automations/daily_briefing.py *)
(* run as processes of their own: main() connects its own client, runs the *)
(* workflow and disconnects.  rows are the AutomationLog rows of the run.  *)
(***************************************************************************)
MaxAssets == 2

LogOut(rows, raised) == [rows |-> rows, raised |-> raised]

\* A log_automation without try/except: a failing write raises
log_automation_unguarded(rows, log_fault, automation_id, status) ==
    IF log_fault THEN LogOut(rows, "DatabaseError")
    ELSE LogOut(Append(rows, [automationId |-> automation_id, status |-> status]), "none")

\* log_automation of lead_intake.py: the write is inside try/except, which
\* prints and returns
lead_intake_log_automation(rows, log_fault, automation_id, status) ==
    IF log_fault THEN LogOut(rows, "none")
    ELSE LogOut(Append(rows, [automationId |-> automation_id, status |-> status]), "none")

\* log_automation of daily_briefing.py: likewise
daily_briefing_log_automation(rows, log_fault, automation_id, status) ==
    IF log_fault THEN LogOut(rows, "none")
    ELSE LogOut(Append(rows, [automationId |-> automation_id, status |-> status]), "none")

\* enrich_lead_with_explorium: db.lead.update of the enrichment fields
enrich_lead_with_explorium(L, email) ==
    [i \in DOMAIN L |->
        IF L[i].email = email
        THEN [email |-> L[i].email, name |-> L[i].name, source |-> L[i].source,
              tags |-> L[i].tags, enrichmentCompany |-> "Example Corp"]
        ELSE L[i]]

RunOut(L, rows, code, raised) == [leads |-> L, rows |-> rows, code |-> code, raised |-> raised]

\* the except branch of process_lead after its log_automation('failed');
\* main() then exits with status 1
process_lead_failed(L, logged) == RunOut(L, logged.rows, 1, logged.raised)

\* the end of the try block of process_lead after its log_automation('completed')
process_lead_completed(L, logged, log_fault) ==
    IF logged.raised = "none" THEN RunOut(L, logged.rows, 0, "none")
    ELSE process_lead_failed(L,
            lead_intake_log_automation(logged.rows, log_fault, "A1-lead-intake", "failed"))

\* process_lead after upsert_lead returned or raised u
process_lead_upserted(L, u, log_fault, email) ==
    IF u.raised # "none"
    THEN process_lead_failed(L,
            lead_intake_log_automation(<<>>, log_fault, "A1-lead-intake", "failed"))
    ELSE process_lead_completed(enrich_lead_with_explorium(u.leads, email),
            lead_intake_log_automation(<<>>, log_fault, "A1-lead-intake", "completed"),
            log_fault)

process_lead(L, lead_data, fault, log_fault) ==
    {process_lead_upserted(L, u, log_fault, lead_data.email) :
        u \in upsert_lead(L, lead_data, fault)}

\* One run of lead_intake.py
LeadIntake ==
    \E lead_data \in [email : LeadEmails, name : {"n1"}, tags : {<<>>, <<"t1">>}],
       fault \in {"none", "db"}, log_fault \in BOOLEAN :
      \E out \in process_lead(leads, lead_data, fault, log_fault) :
        /\ leads' = out.leads
        /\ logs' = out.rows
        /\ last' = [endpoint |-> "lead_intake.main",
                    request |-> [fault |-> fault, log_fault |-> log_fault],
                    code |-> out.code, body |-> "none", raised |-> out.raised,
                    order |-> NoOrder, calls |-> <<>>]
        /\ UNCHANGED <<orders, subscriptions, connected, started, ENVIRONMENT,
                       STRIPE_WEBHOOK_SECRET, products, migrations, assets, kpi>>

RECURSIVE gross(_)
\* sum(order.amountGbp for order in orders), in hundredths
gross(rows) ==
    IF rows = <<>> THEN 0
    ELSE rows[1].amountGbp.whole * 100 + rows[1].amountGbp.frac + gross(Tail(rows))

\* update_daily_kpi: the upsert of today's row from the n leads and the
\* rows of orders created today
kpidaily_upsert(n, today) ==
    [leads |-> n, orders |-> Len(today), grossGbp |-> gross(today),
     refunds |-> Cardinality({i \in DOMAIN today : today[i].status = "refunded"}),
     exists |-> TRUE]

BriefOut(a, k, rows, code, raised) ==
    [assets |-> a, kpi |-> k, rows |-> rows, code |-> code, raised |-> raised]

\* the except branch of main() after its log_automation('failed'): sys.exit(1)
briefing_failed(a, k, logged) == BriefOut(a, k, logged.rows, 1, logged.raised)

\* the end of the try block of main() after its log_automation('completed')
briefing_completed(a, k, logged, log_fault) ==
    IF logged.raised = "none" THEN BriefOut(a, k, logged.rows, 0, "none")
    ELSE briefing_failed(a, k,
            daily_briefing_log_automation(logged.rows, log_fault, "A3-briefing-daily", "failed"))

\* main() of daily_briefing.py.  content_error: generate_briefing_content
\* returned an error; db_fault: the writes of save_to_database and
\* update_daily_kpi fail (both print and go on); k: today's KpiDaily row as
\* update_daily_kpi would write it.
daily_briefing_main(a, old_kpi, k, content_error, db_fault, log_fault) ==
    IF content_error
    THEN briefing_failed(a, old_kpi,
            daily_briefing_log_automation(<<>>, log_fault, "A3-briefing-daily", "failed"))
    ELSE IF db_fault
    THEN briefing_completed(a, old_kpi,
            daily_briefing_log_automation(<<>>, log_fault, "A3-briefing-daily", "completed"),
            log_fault)
    ELSE briefing_completed(a + 1, k,
            daily_briefing_log_automation(<<>>, log_fault, "A3-briefing-daily", "completed"),
            log_fault)

\* One run of daily_briefing.py.  The rows created today are the n newest
\* leads and the m newest orders.
DailyBriefing ==
    \E content_error \in BOOLEAN, db_fault \in BOOLEAN, log_fault \in BOOLEAN,
       n \in 0..Len(leads), m \in 0..Len(orders) :
      \E out \in {daily_briefing_main(assets, kpi,
                    kpidaily_upsert(n, SubSeq(orders, Len(orders) - m + 1, Len(orders))),
                    content_error, db_fault, log_fault)} :
        /\ out.assets <= MaxAssets
        /\ assets' = out.assets
        /\ kpi' = out.kpi
        /\ logs' = out.rows
        /\ last' = [endpoint |-> "daily_briefing.main",
                    request |-> [fault |-> IF content_error THEN "content" ELSE "none",
                                 log_fault |-> log_fault],
                    code |-> out.code, body |-> "none", raised |-> out.raised,
                    order |-> NoOrder, calls |-> <<>>]
        /\ UNCHANGED <<orders, subscriptions, connected, started, ENVIRONMENT,
                       STRIPE_WEBHOOK_SECRET, products, leads, migrations>>

ScriptStripeEvents ==
    OrderEvents({"checkout.session.completed"}, {"T1"}, {COPYKIT_MONTHLY, NoSku},
                {"none", "log_write"})

InitScripts ==
    /\ InitStore
    /\ ENVIRONMENT = "development"
    /\ STRIPE_WEBHOOK_SECRET = FALSE
    /\ products = Products

NextScripts ==
    \/ LeadIntake
    \/ DailyBriefing
    \/ StripeWebhook(ScriptStripeEvents)
    \/ Restart

SpecScripts == InitScripts /\ [][NextScripts]_vars

(***************************************************************************)
(* scripts/migrate.py.  The connection is in autocommit mode, so every     *)
(* statement of execute_migration is committed on its own.                 *)
(***************************************************************************)
RECURSIVE path_less(_, _)
\* a < b on file names: character by character, a proper prefix first
path_less(a, b) ==
    IF b = <<>> THEN FALSE
    ELSE IF a = <<>> THEN TRUE
    ELSE IF a[1] # b[1] THEN a[1] < b[1]
    ELSE path_less(Tail(a), Tail(b))

\* A sort that keeps the numeric order of the names
RECURSIVE sorted_by_number(_)
sorted_by_number(files) ==
    IF files = {} THEN <<>>
    ELSE IF <<1>> \in files THEN <<(<<1>>)>> \o sorted_by_number(files \ {<<1>>})
    ELSE IF <<2>> \in files THEN <<(<<2>>)>> \o sorted_by_number(files \ {<<2>>})
    ELSE <<(<<1, 0>>)>> \o sorted_by_number(files \ {<<1, 0>>})

RECURSIVE sorted(_)
\* sorted(paths)
sorted(files) ==
    IF files = {} THEN <<>>
    ELSE <<CHOOSE f \in files : \A g \in files \ {f} : path_less(f, g)>>
         \o sorted(files \ {CHOOSE f \in files : \A g \in files \ {f} : path_less(f, g)})

\* get_executed_migrations: the completed file names; [] when the query fails
get_executed_migrations(M, read_fail) ==
    IF read_fail THEN {} ELSE {f \in MigrationFiles : M[f] = "completed"}

get_pending_migrations(M, read_fail) ==
    sorted(MigrationFiles \ get_executed_migrations(M, read_fail))

\* What may go wrong in one execute_migration: nothing; the file cannot be
\* read; the migration SQL fails; the SQL fails and so does the UPDATE to
\* 'failed' (connection lost); the UPDATE to 'completed' fails
MigrationFaults == {"none", "read", "sql", "sql_lost", "mark"}

\* UPDATE migrations SET status = 'failed' WHERE filename = f
mark_failed(M, f) == IF M[f] = NoRow THEN M ELSE [M EXCEPT ![f] = "failed"]

\* execute_migration: INSERT .. 'running' (or UPDATE on conflict), the
\* migration SQL, UPDATE .. 'completed'; on an exception UPDATE .. 'failed',
\* whose own failure is passed over
execute_migration(M, f, fault) ==
    IF fault = "none" THEN [migrations |-> [M EXCEPT ![f] = "completed"], ok |-> TRUE]
    ELSE IF fault = "read" THEN [migrations |-> mark_failed(M, f), ok |-> FALSE]
    ELSE IF fault = "sql_lost" THEN [migrations |-> [M EXCEPT ![f] = "running"], ok |-> FALSE]
    ELSE [migrations |-> [M EXCEPT ![f] = "failed"], ok |-> FALSE]

MigrationOut(M, calls, returned) == [migrations |-> M, calls |-> calls, returned |-> returned]

RECURSIVE run_pending(_, _, _, _, _, _, _)
\* the for loop of run_migrations over pending[k..], after the outcome
\* done of execute_migration on pending[k - 1]
run_pending(pending, k, done, calls, success_count, force, faults) ==
    IF k > 1 /\ ~done.ok /\ ~force THEN MigrationOut(done.migrations, calls, FALSE)
    ELSE IF k > Len(pending)
    THEN MigrationOut(done.migrations, calls, success_count = Len(pending))
    ELSE run_pending(pending, k + 1,
                     execute_migration(done.migrations, pending[k], faults[pending[k]]),
                     Append(calls, <<"execute_migration", pending[k]>>),
                     IF faults[pending[k]] = "none" THEN success_count + 1 ELSE success_count,
                     force, faults)

\* run_migrations(force).  connect_fail: connect() or create_migrations_table()
\* raises
run_migrations(M, force, connect_fail, read_fail, faults) ==
    IF connect_fail THEN MigrationOut(M, <<>>, FALSE)
    ELSE run_pending(get_pending_migrations(M, read_fail), 1,
                     [migrations |-> M, ok |-> TRUE], <<>>, 0, force, faults)

\* rollback_migration(filename)
rollback_migration(M, f, connect_fail) == IF connect_fail THEN M ELSE mark_failed(M, f)

\* the faults of a run: at most one file fails
Faultings ==
    {[f \in MigrationFiles |-> IF f = g THEN fault ELSE "none"] :
        g \in MigrationFiles, fault \in MigrationFaults}

\* python migrate.py [--force]
RunMigrations ==
    \E force \in BOOLEAN, connect_fail \in BOOLEAN, read_fail \in BOOLEAN, faults \in Faultings :
      \E out \in {run_migrations(migrations, force, connect_fail, read_fail, faults)} :
        /\ migrations' = out.migrations
        /\ last' = [endpoint |-> "run_migrations",
                    request |-> [force |-> force, connect_fail |-> connect_fail,
                                 read_fail |-> read_fail, faults |-> faults],
                    code |-> IF out.returned THEN 0 ELSE 1, body |-> "none",
                    raised |-> "none", order |-> NoOrder, calls |-> out.calls]
        /\ UNCHANGED <<orders, subscriptions, logs, connected, started, ENVIRONMENT,
                       STRIPE_WEBHOOK_SECRET, products, leads, assets, kpi>>

\* python migrate.py --rollback f
RollbackMigration ==
    \E f \in MigrationFiles, connect_fail \in BOOLEAN :
        /\ migrations' = rollback_migration(migrations, f, connect_fail)
        /\ last' = [endpoint |-> "rollback_migration",
                    request |-> [filename |-> f, connect_fail |-> connect_fail],
                    code |-> 0, body |-> "none", raised |-> "none", order |-> NoOrder,
                    calls |-> <<>>]
        /\ UNCHANGED <<orders, subscriptions, logs, connected, started, ENVIRONMENT,
                       STRIPE_WEBHOOK_SECRET, products, leads, assets, kpi>>

InitMigrations ==
    /\ InitStore
    /\ ENVIRONMENT = "development"
    /\ STRIPE_WEBHOOK_SECRET = FALSE
    /\ products = Products

NextMigrations ==
    \/ RunMigrations
    \/ RollbackMigration

SpecMigrations == InitMigrations /\ [][NextMigrations]_vars

(***************************************************************************)
(* Properties                                                              *)
(***************************************************************************)
Webhooks == {"/webhooks/stripe", "/webhooks/paypal"}
GatewayOf(endpoint) == IF endpoint = "/webhooks/stripe" THEN "stripe" ELSE "paypal"
CheckoutTypes == {"checkout.session.completed", "PAYMENT.CAPTURE.COMPLETED"}
RefundTypes == {"charge.refunded", "PAYMENT.CAPTURE.REFUNDED"}
DisputeTypes == {"charge.dispute.created", "CUSTOMER.DISPUTE.CREATED"}

\* the orders whose transaction id is txn, of any gateway
OrdersWithTxn(txn) == {i \in DOMAIN orders : orders[i].gatewayTransactionId = txn}

\* the orders of one gateway whose transaction id is txn
OrdersWithKey(gateway, txn) == {i \in OrdersWithTxn(txn) : orders[i].gateway = gateway}

\* C1: the store never holds two Orders with the same gateway and the same
\* gateway transaction id, whatever webhooks were delivered, re-delivered or
\* failed.
C1_OneOrderPerKey ==
    \A i, j \in DOMAIN orders :
        (/\ orders[i].gateway = orders[j].gateway
         /\ orders[i].gatewayTransactionId = orders[j].gatewayTransactionId) => i = j

\* A re-delivery was refused for its key while the store held two orders.
C1_Witness ==
    /\ Len(orders) = 2
    /\ last.raised = "UniqueViolationError"
    /\ OrdersWithKey(GatewayOf(last.endpoint), last.request.event.ref) # {}

\* C2 (as claimed): a valid checkout/payment-completed event whose (gateway,
\* transaction id) has no Order yet creates exactly one Order, created with
\* status paid and fulfilled = false.
C2_Original ==
    [][(/\ last'.endpoint \in Webhooks
        /\ last'.request.event.type \in CheckoutTypes
        /\ last'.request.event.fault = "none"
        /\ OrdersWithKey(GatewayOf(last'.endpoint), last'.request.event.ref) = {})
       => (/\ Len(orders') = Len(orders) + 1
           /\ SubSeq(orders', 1, Len(orders)) = orders
           /\ last'.order.id = Len(orders')
           /\ last'.order.gateway = GatewayOf(last'.endpoint)
           /\ last'.order.gatewayTransactionId = last'.request.event.ref
           /\ last'.order.status = "paid"
           /\ last'.order.fulfilled = FALSE)]_vars

\* C3 (as claimed): re-delivering a valid checkout-completed event whose
\* (gateway, transaction id) already has an Order raises a uniqueness
\* violation: the webhook answers 500, no second Order is created and the
\* existing Order is left unchanged.
C3_Original ==
    [][(/\ last'.endpoint \in Webhooks
        /\ last'.request.event.type \in CheckoutTypes
        /\ last'.request.event.fault = "none"
        /\ OrdersWithKey(GatewayOf(last'.endpoint), last'.request.event.ref) # {})
       => (/\ last'.raised = "UniqueViolationError"
           /\ last'.code = 500
           /\ orders' = orders)]_vars

\* C4 (as claimed): once an Order is refunded or disputed, no later event
\* changes its status.
C4_Original ==
    [][\A i \in DOMAIN orders :
         orders[i].status \in {"refunded", "disputed"}
           => (i \in DOMAIN orders' /\ orders'[i].status = orders[i].status)]_vars

\* C4 (amended): once an Order is refunded or disputed, its status changes
\* again only by a refund event carrying its transaction id (to refunded) or
\* by a Stripe dispute event carrying its transaction id (to disputed);
\* checkout events, other events and fulfilment calls leave it alone.
C4_TerminalExceptRefundDispute ==
    [][\A i \in DOMAIN orders :
         orders[i].status \in {"refunded", "disputed"}
           => /\ i \in DOMAIN orders'
              /\ \/ orders'[i].status = orders[i].status
                 \/ /\ last'.endpoint \in Webhooks
                    /\ last'.request.event.ref = orders[i].gatewayTransactionId
                    /\ \/ /\ last'.request.event.type \in RefundTypes
                          /\ orders'[i].status = "refunded"
                       \/ /\ last'.request.event.type = "charge.dispute.created"
                          /\ orders'[i].status = "disputed"]_vars

\* A refunded order whose checkout event was delivered again: it stayed
\* refunded.
C4_Witness ==
    /\ last.request.event.type \in CheckoutTypes
    /\ \E i \in OrdersWithKey(GatewayOf(last.endpoint), last.request.event.ref) :
         orders[i].status = "refunded"

\* C5: an Order whose status is no longer paid never has status paid again.
C5_NeverBackToPaid ==
    [][\A i \in DOMAIN orders :
         orders[i].status # "paid"
           => (i \in DOMAIN orders' /\ orders'[i].status # "paid")]_vars

\* A fulfilment call succeeded on an order that is disputed.
C5_Witness ==
    /\ last.endpoint = "/api/fulfilment/copykit"
    /\ last.code = 200
    /\ \E i \in DOMAIN orders : orders[i].status = "disputed" /\ orders[i].fulfilled

\* C6 (as claimed): a refund event whose transaction id matches an Order sets
\* that Order to refunded and changes no other Order; with no match it
\* changes nothing and is answered 200.
C6_Original ==
    [][(last'.endpoint \in Webhooks /\ last'.request.event.type \in RefundTypes)
       => IF OrdersWithTxn(last'.request.event.ref) = {}
          THEN /\ orders' = orders
               /\ subscriptions' = subscriptions
               /\ last'.code = 200
          ELSE \E i \in OrdersWithTxn(last'.request.event.ref) :
                  orders' = [orders EXCEPT ![i].status = "refunded"]]_vars

\* C7 (as claimed): for each gateway, a dispute event that is processed and
\* references the transaction id of an Order of that gateway sets the Order
\* to disputed; with no such Order it changes nothing.
C7_Original ==
    [][(/\ last'.endpoint \in Webhooks
        /\ last'.request.event.type \in DisputeTypes
        /\ last'.code = 200)
       => LET own == OrdersWithKey(GatewayOf(last'.endpoint), last'.request.event.ref)
          IN  IF own = {} THEN orders' = orders
              ELSE \A i \in own : orders'[i].status = "disputed"]_vars

\* C8: a webhook request with a content type other than application/json is
\* answered 400, one with a JSON content type that fails the gateway's
\* signature check is answered 401, and neither changes an Order or a
\* Subscription or writes an AutomationLog row.
C8_RejectedBeforeHandlers ==
    [][last'.endpoint \in Webhooks
       => LET req == last'.request
              sig_fails == IF last'.endpoint = "/webhooks/stripe"
                           THEN ~verify_stripe_signature(STRIPE_WEBHOOK_SECRET, ENVIRONMENT, req.sig_ok)
                           ELSE ~verify_paypal_signature(ENVIRONMENT)
          IN  /\ req.content_type # "application/json" => last'.code = 400
              /\ (req.content_type = "application/json" /\ sig_fails) => last'.code = 401
              /\ last'.code \in {400, 401}
                   => (/\ orders' = orders
                       /\ subscriptions' = subscriptions
                       /\ logs' = <<>>)]_vars

\* The store holds an order and a subscription, and a Stripe
\* request that was turned away for its signature.
C8_Witness ==
    /\ Len(orders) > 0
    /\ Len(subscriptions) > 0
    /\ last.endpoint = "/webhooks/stripe"
    /\ last.code = 401

\* C9 (as claimed): with no Stripe secret configured, a JSON Stripe webhook
\* passes verification in every environment other than production and is
\* rejected in production.
C9_Original ==
    (/\ last.endpoint = "/webhooks/stripe"
     /\ last.request.content_type = "application/json"
     /\ ~STRIPE_WEBHOOK_SECRET)
    => IF ENVIRONMENT = "production" THEN last.code = 401 ELSE last.code # 401

\* C9 (amended): with no Stripe secret configured, a JSON Stripe webhook
\* passes verification exactly when ENVIRONMENT is 'development'; it is
\* rejected in production, with ENVIRONMENT unset and with any other value.
C9_PermissiveOnlyInDevelopment ==
    (/\ last.endpoint = "/webhooks/stripe"
     /\ last.request.content_type = "application/json"
     /\ ~STRIPE_WEBHOOK_SECRET)
    => (last.code # 401 <=> ENVIRONMENT = "development")

\* No secret, ENVIRONMENT unset: a JSON Stripe webhook was rejected.
C9_Witness ==
    /\ last.endpoint = "/webhooks/stripe"
    /\ last.request.content_type = "application/json"
    /\ ~STRIPE_WEBHOOK_SECRET
    /\ ENVIRONMENT = "unset"
    /\ last.code = 401

\* C10: a webhook that passed validation and whose event type has no handler
\* is answered 200 {"received": true} and changes no Order or Subscription
\* and writes no AutomationLog row.
C10_UnhandledTypeIgnored ==
    [][(/\ last'.endpoint \in Webhooks
        /\ last'.code \notin {400, 401}
        /\ last'.request.event.type \notin (StripeHandled \cup PayPalHandled))
       => (/\ last'.code = 200
           /\ last'.body = "received"
           /\ last'.raised = "none"
           /\ orders' = orders
           /\ subscriptions' = subscriptions
           /\ logs' = <<>>)]_vars

\* An unhandled Stripe event type was answered 200 over a store that holds
\* an order and a subscription.
C10_Witness ==
    /\ last.endpoint = "/webhooks/stripe"
    /\ last.request.event.type = "invoice.paid"
    /\ last.code = 200
    /\ Len(orders) > 0
    /\ Len(subscriptions) > 0

\* C11 (as claimed): whenever a step of checkout/payment-completed
\* processing raises, the request writes an AutomationLog row with status
\* failed for A2-checkout-webhooks and the webhook answers 500.
C11_Original ==
    [][(/\ last'.endpoint \in Webhooks
        /\ last'.request.event.type \in CheckoutTypes
        /\ last'.code \notin {400, 401}
        /\ last'.raised # "none")
       => (/\ last'.code = 500
           /\ \E i \in DOMAIN logs' :
                /\ logs'[i].automationId = "A2-checkout-webhooks"
                /\ logs'[i].status = "failed")]_vars

\* C12 (as claimed): when checkout processing fails after the Order row
\* was written, the Order is stored with status paid and fulfilled = false;
\* and every later delivery of the event for an Order that is stored
\* unfulfilled fails with a uniqueness violation and leaves every Order as
\* it was.
C12_Original ==
    [][(/\ last'.endpoint \in Webhooks
        /\ last'.request.event.type \in CheckoutTypes
        /\ last'.code \notin {400, 401})
       => /\ (last'.raised # "none" /\ last'.order # NoOrder)
               => (/\ Len(orders') = last'.order.id
                   /\ orders'[last'.order.id].status = "paid"
                   /\ orders'[last'.order.id].fulfilled = FALSE)
          /\ (\E i \in OrdersWithKey(GatewayOf(last'.endpoint), last'.request.event.ref) :
                 ~orders[i].fulfilled)
               => (/\ last'.raised = "UniqueViolationError"
                   /\ last'.code = 500
                   /\ orders' = orders)]_vars

\* the request called trigger_fulfillment
Dispatched(calls) == \E k \in DOMAIN calls : calls[k] = <<"trigger_fulfillment">>

C14_Original ==
    \A i \in DOMAIN orders :
        (~startswith(orders[i].sku, "COPYKIT") /\ ~startswith(orders[i].sku, "DAILYBRIEF"))
            => ~orders[i].fulfilled

\* a Stripe checkout.session.completed with metadata sku COPYKIT-MONTHLY was
\* answered 200 in this step
CopykitMonthlyAccepted ==
    /\ last'.endpoint = "/webhooks/stripe"
    /\ last'.request.event.type = "checkout.session.completed"
    /\ last'.request.event.sku = COPYKIT_MONTHLY
    /\ last'.code = 200

\* the new order of this step is stored fulfilled
NewOrderFulfilled ==
    /\ last'.order # NoOrder
    /\ Len(orders') = Len(orders) + 1
    /\ orders'[last'.order.id].sku = COPYKIT_MONTHLY
    /\ orders'[last'.order.id].fulfilled

\* C15 as stated: a Stripe checkout.session.completed with metadata sku
\* COPYKIT-MONTHLY that is answered 200 leaves the new order fulfilled.
C15_Original == [][CopykitMonthlyAccepted => NewOrderFulfilled]_vars

\* C15: a Stripe checkout.session.completed with metadata sku
\* COPYKIT-MONTHLY that is answered 200 leaves the new order fulfilled when
\* a Product row for COPYKIT-MONTHLY exists and declares a fulfilment target.
C15_FulfilledWhenProductHasTarget ==
    [][(/\ CopykitMonthlyAccepted
        /\ \E p \in products : p.sku = COPYKIT_MONTHLY /\ p.fulfilmentWebhook)
       => NewOrderFulfilled]_vars

\* A COPYKIT-MONTHLY checkout was answered 200 with a Product row that has a
\* fulfilment target, and the order is stored fulfilled.
C15_Witness ==
    /\ last.endpoint = "/webhooks/stripe"
    /\ last.request.event.type = "checkout.session.completed"
    /\ last.request.event.sku = COPYKIT_MONTHLY
    /\ last.code = 200
    /\ \E p \in products : p.sku = COPYKIT_MONTHLY /\ p.fulfilmentWebhook
    /\ last.order # NoOrder
    /\ orders[last.order.id].fulfilled

\* C16: whenever the Stripe webhook answers 200 to checkout.session.completed,
\* the order count has strictly grown and the store holds a Stripe order whose
\* gatewayTransactionId is the event's payment_intent, whose buyerEmail is the
\* event's customer email (customer_email, else customer_details.email), whose
\* sku is metadata.sku (UNKNOWN when absent) and whose amount is amount_total
\* divided by 100 (hundredths below 100, whole * 100 + hundredths = amount_total).
C16_OrderRecorded ==
    [][(/\ last'.endpoint = "/webhooks/stripe"
        /\ last'.request.event.type = "checkout.session.completed"
        /\ last'.code = 200)
       => /\ Len(orders') > Len(orders)
          /\ \E i \in DOMAIN orders' :
                /\ i \notin DOMAIN orders
                /\ orders'[i].gateway = "stripe"
                /\ orders'[i].gatewayTransactionId = last'.request.event.ref
                /\ orders'[i].buyerEmail =
                       (IF last'.request.event.customer_email # Absent
                        THEN last'.request.event.customer_email
                        ELSE last'.request.event.details_email)
                /\ orders'[i].sku =
                       (IF last'.request.event.sku = NoSku THEN "UNKNOWN"
                        ELSE last'.request.event.sku)
                /\ orders'[i].amountGbp.frac \in 0..99
                /\ orders'[i].amountGbp.whole * 100 + orders'[i].amountGbp.frac
                       = last'.request.event.amount]_vars

\* After a PayPal order, a Stripe order was recorded from amount_total 1999 with the email
\* in customer_details only and no metadata sku: 19.99, c@d.com, UNKNOWN.
C16_Witness ==
    /\ last.endpoint = "/webhooks/stripe"
    /\ last.code = 200
    /\ last.request.event.amount = 1999
    /\ last.request.event.customer_email = Absent
    /\ last.request.event.sku = NoSku
    /\ Len(orders) = 2
    /\ orders[2].amountGbp = [whole |-> 19, frac |-> 99]
    /\ orders[2].buyerEmail = "c@d.com"
    /\ orders[2].sku = "UNKNOWN"

\* positions of a call in the calls of a request
Positions(calls, call) == {k \in DOMAIN calls : calls[k] = call}

\* C17: in checkout processing of either gateway that created its order,
\* trigger_fulfillment is called if and only if a Product row exists for the
\* order's sku and declares a fulfilment target; when called, it is called
\* once, after db.order.create and before the 'completed' log of the handler.
C17_DispatchIffTarget ==
    [][(/\ last'.endpoint \in Webhooks
        /\ last'.request.event.type \in CheckoutTypes
        /\ last'.order # NoOrder)
       => /\ Dispatched(last'.calls)
                <=> \E p \in products : /\ p.sku = last'.order.sku
                                        /\ p.fulfilmentWebhook
          /\ \A t \in Positions(last'.calls, <<"trigger_fulfillment">>) :
                /\ Positions(last'.calls, <<"trigger_fulfillment">>) = {t}
                /\ \E c \in Positions(last'.calls, <<"db.order.create">>) : c < t
                /\ \A d \in Positions(last'.calls,
                        <<"log_automation", "A2-checkout-webhooks", "completed">>) : t < d
          /\ last'.code = 200
                => Positions(last'.calls,
                        <<"log_automation", "A2-checkout-webhooks", "completed">>)
                     = {Len(last'.calls)}]_vars

\* A checkout answered 200 whose calls were: create the order, dispatch and
\* fulfil, then the 'completed' log of the handler.
C17_Witness ==
    /\ last.endpoint \in Webhooks
    /\ last.code = 200
    /\ last.order # NoOrder
    /\ \E p \in products : p.sku = last.order.sku /\ p.fulfilmentWebhook
    /\ Len(last.calls) >= 3
    /\ last.calls[1] = <<"db.order.create">>
    /\ last.calls[2] = <<"trigger_fulfillment">>
    /\ last.calls[Len(last.calls)] = <<"log_automation", "A2-checkout-webhooks", "completed">>

\* rows of table Subscription with the given gateway and subscription id
SubscriptionsWithKey(gateway, sub_id) ==
    {i \in DOMAIN subscriptions : /\ subscriptions[i].gateway = gateway
                                  /\ subscriptions[i].gatewaySubscriptionId = sub_id}

CancelTypes == {"customer.subscription.deleted", "BILLING.SUBSCRIPTION.CANCELLED"}

\* C18: a subscription cancelled/deleted event delivered for an existing
\* Subscription leaves that row with status cancelled and a cancellation
\* time, whatever its status was.
C18_Original ==
    [][(/\ last'.endpoint \in Webhooks
        /\ last'.request.event.type \in CancelTypes
        /\ last'.code \notin {400, 401})
       => \A i \in SubscriptionsWithKey(GatewayOf(last'.endpoint), last'.request.event.ref) :
            /\ subscriptions'[i].status = "cancelled"
            /\ subscriptions'[i].cancelledAt = Stamp]_vars

\* C19: a Stripe subscription-updated event for which no Subscription row
\* of (stripe, subscription id) exists creates no row and changes no row, and
\* a later 'created' for that id stores a row holding the values of the
\* 'created' event only.
C19_Original ==
    [][/\ (/\ last'.endpoint = "/webhooks/stripe"
           /\ last'.request.event.type = "customer.subscription.updated"
           /\ last'.code \notin {400, 401}
           /\ SubscriptionsWithKey("stripe", last'.request.event.ref) = {})
          => subscriptions' = subscriptions
       /\ (/\ last'.endpoint = "/webhooks/stripe"
           /\ last'.request.event.type = "customer.subscription.created"
           /\ last'.code = 200)
          => /\ Len(subscriptions') = Len(subscriptions) + 1
             /\ subscriptions'[Len(subscriptions')].status = last'.request.event.status
             /\ subscriptions'[Len(subscriptions')].currentPeriodStart = last'.request.event.period
             /\ subscriptions'[Len(subscriptions')].cancelAtPeriodEnd
                    = last'.request.event.cancel_at_period_end]_vars

\* rows of table Lead with the given email
LeadsWithEmail(L, email) == {i \in DOMAIN L : L[i].email = email}

\* C20: upsert_lead keeps one Lead per email; a submission for an email that
\* already has a Lead adds no row, leaves the other rows alone and leaves the
\* Lead with each tag once and with tag set = previous tags union submitted
\* tags; submitting the same data once more leaves name, source and tag set
\* of every Lead as they were.
C20_UpsertMergesTags ==
    [][(last'.endpoint = "upsert_lead" /\ last'.raised = "none")
       => /\ \A i, j \in DOMAIN leads' : leads'[i].email = leads'[j].email => i = j
          /\ \A i \in LeadsWithEmail(leads, last'.request.email) :
                /\ Len(leads') = Len(leads)
                /\ \A j \in DOMAIN leads : j # i => leads'[j] = leads[j]
                /\ leads'[i].email = leads[i].email
                /\ {leads'[i].tags[k] : k \in DOMAIN leads'[i].tags}
                     = {leads[i].tags[k] : k \in DOMAIN leads[i].tags}
                       \cup {last'.request.tags[k] : k \in DOMAIN last'.request.tags}
                /\ \A k, l \in DOMAIN leads'[i].tags :
                       leads'[i].tags[k] = leads'[i].tags[l] => k = l
          /\ (/\ last.endpoint = "upsert_lead"
              /\ last.raised = "none"
              /\ last'.request = last.request
              /\ LeadsWithEmail(leads, last.request.email) # {})
             => /\ Len(leads') = Len(leads)
                /\ \A i \in DOMAIN leads :
                     /\ leads'[i].email = leads[i].email
                     /\ leads'[i].name = leads[i].name
                     /\ leads'[i].source = leads[i].source
                     /\ {leads'[i].tags[k] : k \in DOMAIN leads'[i].tags}
                          = {leads[i].tags[k] : k \in DOMAIN leads[i].tags}]_vars

\* A second submission for a@b.com with tags [t2] met a Lead tagged t1: both
\* leads are stored, and the Lead of a@b.com carries t1 and t2 once each.
C20_Witness ==
    /\ last.endpoint = "upsert_lead"
    /\ last.raised = "none"
    /\ last.request.email = "a@b.com"
    /\ last.request.tags = <<"t2">>
    /\ Len(leads) = 2
    /\ \E i \in DOMAIN leads :
         /\ leads[i].email = "a@b.com"
         /\ Len(leads[i].tags) = 2
         /\ {leads[i].tags[k] : k \in DOMAIN leads[i].tags} = {"t1", "t2"}

\* the email of a request as the store would hold it: sanitised, lower
\* case, without surrounding whitespace
Normalised(email) == strip(lower(sanitize_text(email)))

\* a POST /api/leads that reached create_lead with an email of a stored Lead
RepeatOfKnownAddress ==
    /\ last'.endpoint = "/api/leads"
    /\ last'.code # 429
    /\ last'.request.is_json
    /\ last'.request.data.has_email
    /\ \E i \in DOMAIN leads : leads[i].email = Normalised(last'.request.data.email)

\* C21: a POST /api/leads for an email that already has a Lead applies the
\* submitted fields to that Lead: its tags become the stored tags merged
\* with the submitted ones and a submitted name replaces the stored name.
C21_Original ==
    [][(/\ RepeatOfKnownAddress
        /\ validate_email(last'.request.data.email))
       => \A i \in DOMAIN leads :
            leads[i].email = Normalised(last'.request.data.email)
            => /\ Len(leads') = Len(leads)
               /\ {leads'[i].tags[k] : k \in DOMAIN leads'[i].tags}
                    = {leads[i].tags[k] : k \in DOMAIN leads[i].tags}
                      \cup {last'.request.data.tags[k] : k \in DOMAIN last'.request.data.tags}
               /\ last'.request.data.name # NoText
                    => leads'[i].name = last'.request.data.name]_vars

\* C29: a POST /api/leads whose email equals a stored Lead's email after
\* lower-casing and trimming is answered 200 'Lead already exists', never 500.
C29_Original ==
    [][RepeatOfKnownAddress
       => (last'.code = 200 /\ last'.body = "Lead already exists")]_vars

Scripts == {"lead_intake.main", "daily_briefing.main"}

\* C22: in a run of lead_intake.py or daily_briefing.py a failing audit-log
\* write raises nothing and leaves the outcome of the run as it is without
\* the failure (exit status 0 exactly when the workflow itself did not fail;
\* only the log row is missing); in the webhook path a failing audit-log
\* write comes out of log_automation: the handler raises and the route
\* answers 500.
C22_LogFailurePropagatesOnlyInWebhooks ==
    [][/\ last'.endpoint \in Scripts
          => /\ last'.raised = "none"
             /\ last'.code = (IF last'.request.fault = "none" THEN 0 ELSE 1)
             /\ logs' = (IF last'.request.log_fault THEN <<>>
                         ELSE <<[automationId |->
                                    IF last'.endpoint = "lead_intake.main"
                                    THEN "A1-lead-intake" ELSE "A3-briefing-daily",
                                 status |-> IF last'.request.fault = "none"
                                            THEN "completed" ELSE "failed"]>>)
       /\ (/\ last'.endpoint \in Webhooks
           /\ last'.request.event.fault = "log_write"
           /\ \E k \in DOMAIN last'.calls : last'.calls[k][1] = "log_automation")
          => (last'.raised # "none" /\ last'.code = 500)]_vars

\* A run of lead_intake.py whose audit-log write failed: the lead was
\* stored, nothing was raised, the run ended with status 0 and no log row.
C22_Witness ==
    /\ last.endpoint = "lead_intake.main"
    /\ last.request.log_fault
    /\ last.request.fault = "none"
    /\ last.code = 0
    /\ last.raised = "none"
    /\ logs = <<>>
    /\ leads # <<>>

\* 1.sql, 10.sql, 2.sql in ascending order of file name
AscendingFiles == << <<1>>, <<1, 0>>, <<2>> >>

\* the files run_migrations takes for pending in this step
PendingFiles ==
    IF last'.request.read_fail THEN MigrationFiles
    ELSE {f \in MigrationFiles : migrations[f] # "completed"}

\* the claim of C23 about the run_migrations of this step
RunsPendingInOrder ==
    LET IsPending(f) == f \in PendingFiles
        pending == SelectSeq(AscendingFiles, IsPending)
        failing == {k \in DOMAIN pending : last'.request.faults[pending[k]] # "none"}
        stop == IF failing = {} \/ last'.request.force THEN Len(pending)
                ELSE CHOOSE k \in failing : \A l \in failing : k <= l
    IN  /\ [k \in DOMAIN last'.calls |-> last'.calls[k][2]] = SubSeq(pending, 1, stop)
        /\ (last'.code = 0) <=> \A f \in PendingFiles : migrations'[f] = "completed"

C24_Original == [][last'.raised # "ClientNotConnectedError"]_vars

\* C25 (as claimed): a Stripe charge.refunded or charge.dispute.created
\* leaves every PayPal Order as it was, and a PayPal
\* PAYMENT.CAPTURE.REFUNDED leaves every Stripe Order as it was, also when
\* an Order of the other gateway carries the same transaction id.
C25_Original ==
    [][/\ (/\ last'.endpoint = "/webhooks/stripe"
           /\ last'.request.event.type \in {"charge.refunded", "charge.dispute.created"})
          => \A i \in DOMAIN orders :
                orders[i].gateway = "paypal" => orders'[i] = orders[i]
       /\ (/\ last'.endpoint = "/webhooks/paypal"
           /\ last'.request.event.type = "PAYMENT.CAPTURE.REFUNDED")
          => \A i \in DOMAIN orders :
                orders[i].gateway = "stripe" => orders'[i] = orders[i]]_vars

\* C26 (as claimed): a subscription-updated event never moves a
\* Subscription whose status is cancelled to another status.
C26_Original ==
    [][(/\ last'.endpoint = "/webhooks/stripe"
        /\ last'.request.event.type = "customer.subscription.updated")
       => \A i \in DOMAIN subscriptions :
             subscriptions[i].status = "cancelled"
               => subscriptions'[i].status = "cancelled"]_vars

\* the files on which the run_migrations of this step called
\* execute_migration
ExecutedFiles == {last'.calls[k][2] : k \in DOMAIN last'.calls}

\* C27 (as claimed): no run_migrations executes a file whose row has status
\* completed when the run starts (a rollback in between leaves the row
\* failed, not completed), also when the read of the executed migrations
\* fails.
C27_Original ==
    [][last'.endpoint = "run_migrations"
       => \A f \in ExecutedFiles : migrations[f] # "completed"]_vars

\* C28 (as claimed): when run_migrations has returned no row has status
\* running, and every file it executed is recorded completed when its SQL
\* succeeded and failed when it did not.
C28_Original ==
    [][last'.endpoint = "run_migrations"
       => /\ \A f \in MigrationFiles : migrations'[f] # "running"
          /\ \A f \in ExecutedFiles :
                migrations'[f] = IF last'.request.faults[f] \in {"none", "mark"}
                                 THEN "completed" ELSE "failed"]_vars

\* C30: in every reachable state an Order has fulfilled = true exactly when
\* its fulfilledAt is set, and no step takes fulfilled of an Order from
\* true back to false.
C30_FulfilledIffStamped ==
    /\ [](\A i \in DOMAIN orders : orders[i].fulfilled <=> orders[i].fulfilledAt # Null)
    /\ [][\A i \in DOMAIN orders :
            orders[i].fulfilled => (i \in DOMAIN orders' /\ orders'[i].fulfilled)]_vars

\* A refund was processed for an Order that a fulfilment call had marked
\* fulfilled: the Order is refunded, still fulfilled, and fulfilledAt is set.
C30_Witness ==
    /\ last.endpoint \in Webhooks
    /\ last.request.event.type \in RefundTypes
    /\ last.code = 200
    /\ \E i \in DOMAIN orders :
          /\ orders[i].status = "refunded"
          /\ orders[i].fulfilled
          /\ orders[i].fulfilledAt = Stamp

====
